---- MODULE Spec2Model ----
(***************************************************************************)
(* Model of the quantum-signal-processing (QSP) notebook:                  *)
(*   - the symbolic matrix product qsp_polynomial and the gate sequence    *)
(*     qsp_circuit, with exact arithmetic;                                 *)
(*   - simulate_polynomial, which submits one job per x to a remote        *)
(*     backend and then waits for the jobs in submission order;            *)
(*   - the notebook kernel: the cells of the QSP notebook and of the       *)
(*     three hello-world notebooks as sequences of statements that read    *)
(*     and bind names of one global namespace, run in any order.           *)
(*                                                                         *)
(* Numbers.  A signal value x is kept as the integer 5*x, on the grid      *)
(* where sqrt(1 - x^2) is rational: x in {-1, -4/5, -3/5, 0, 3/5, 4/5, 1}. *)
(* A phase is kept as a number of quarter turns (phi = m * pi/2).          *)
(* A complex number is a pair <<re, im>> of integers, and a matrix is      *)
(* [e |-> <<m00, m01, m10, m11>>, den |-> d], standing for e / 5^d.        *)
(* An angle is [q |-> m, a |-> n], standing for m*pi/2 + n*alpha with      *)
(* alpha = acos(3/5), so that cos and sin of every angle the code builds   *)
(* are exact.                                                              *)
(***************************************************************************)
EXTENDS Integers, Sequences, FiniteSets, TLC

\* ------------------------------------------------------------------ bounds

\* longest phase list drawn for qsp_polynomial / qsp_circuit
MaxLen == 3

\* longest list xs drawn for simulate_polynomial
MaxXs == 2

\* largest count a job reports for one outcome
MaxCount == 1

\* ----------------------------------------------------------------- inputs

XGrid == {-5, -4, -3, 0, 3, 4, 5}

PhaseVals == 0 .. 3

RECURSIVE SeqsUpTo(_, _)
SeqsUpTo(S, n) ==
    IF n = 0 THEN {<<>>}
    ELSE LET shorter == SeqsUpTo(S, n - 1)
         IN  shorter \cup {Append(s, v) : s \in {t \in shorter : Len(t) = n - 1}, v \in S}

None == [raised |-> "unset"]

\* ------------------------------------------------------ complex arithmetic

CAdd(u, v) == <<u[1] + v[1], u[2] + v[2]>>

CMul(u, v) == <<u[1] * v[1] - u[2] * v[2], u[1] * v[2] + u[2] * v[1]>>

CScale(n, u) == <<n * u[1], n * u[2]>>

RECURSIVE Pow5(_)
Pow5(n) == IF n = 0 THEN 1 ELSE 5 * Pow5(n - 1)

\* the matrix product A * B
MatMul(A, B) ==
    [e |-> << CAdd(CMul(A.e[1], B.e[1]), CMul(A.e[2], B.e[3])),
              CAdd(CMul(A.e[1], B.e[2]), CMul(A.e[2], B.e[4])),
              CAdd(CMul(A.e[3], B.e[1]), CMul(A.e[4], B.e[3])),
              CAdd(CMul(A.e[3], B.e[2]), CMul(A.e[4], B.e[4])) >>,
     den |-> A.den + B.den]

\* np.allclose(actual, expected) on exact values: the matrices are equal
allclose(A, B) ==
    \A j \in 1 .. 4 : CScale(Pow5(B.den), A.e[j]) = CScale(Pow5(A.den), B.e[j])

\* sp.simplify: the same matrix with the common factors of 5 cancelled
RECURSIVE simplify(_)
simplify(M) ==
    IF M.den > 0 /\ \A j \in 1 .. 4 : M.e[j][1] % 5 = 0 /\ M.e[j][2] % 5 = 0
    THEN simplify([e |-> [j \in 1 .. 4 |-> <<M.e[j][1] \div 5, M.e[j][2] \div 5>>],
                   den |-> M.den - 1])
    ELSE M

RECURSIVE Reversed(_)
Reversed(s) == IF s = <<>> THEN <<>> ELSE Append(Reversed(Tail(s)), Head(s))

\* ------------------------------------------------------------ trigonometry

\* cos and sin of m quarter turns
CosQ(m) == CASE m % 4 = 0 -> 1 [] m % 4 = 1 -> 0 [] m % 4 = 2 -> -1 [] m % 4 = 3 -> 0

SinQ(m) == CASE m % 4 = 0 -> 0 [] m % 4 = 1 -> 1 [] m % 4 = 2 -> 0 [] m % 4 = 3 -> -1

\* 5*cos(n*alpha) and 5*sin(n*alpha), alpha = acos(3/5), for n in -1 .. 1
CosA5(n) == CASE n = 0 -> 5 [] n = 1 -> 3 [] n = -1 -> 3

SinA5(n) == CASE n = 0 -> 0 [] n = 1 -> 4 [] n = -1 -> -4

\* 5*cos(t) and 5*sin(t) by the addition theorems
Cos5(t) == CosQ(t.q) * CosA5(t.a) - SinQ(t.q) * SinA5(t.a)

Sin5(t) == SinQ(t.q) * CosA5(t.a) + CosQ(t.q) * SinA5(t.a)

\* math.acos on the grid: the angle in [0, pi] whose cosine is xv/5
acos(xv) ==
    CASE xv = 5  -> [q |-> 0, a |-> 0]
      [] xv = 4  -> [q |-> 1, a |-> -1]
      [] xv = 3  -> [q |-> 0, a |-> 1]
      [] xv = 0  -> [q |-> 1, a |-> 0]
      [] xv = -3 -> [q |-> 2, a |-> -1]
      [] xv = -4 -> [q |-> 1, a |-> 1]
      [] xv = -5 -> [q |-> 2, a |-> 0]

\* the product c * t of a number and an angle
AngleTimes(c, t) == [q |-> c * t.q, a |-> c * t.a]

\* theta / 2, for the even multiples the gates hold
HalfAngle(t) == [q |-> t.q \div 2, a |-> t.a \div 2]

\* 5 * sp.sqrt(1 - x**2)
sqrt1mx2(xv) == CHOOSE r \in 0 .. 5 : r * r = 25 - xv * xv

\* ------------------------------------------------------- gates and matrices

\* WGate(x): a one-qubit circuit holding rx(-2.0 * acos(x))
WGateSignError(xv) == [name |-> "rx", theta |-> AngleTimes(2, acos(xv)), arg |-> xv]

WGate(xv) == [name |-> "rx", theta |-> AngleTimes(-2, acos(xv)), arg |-> xv]

\* SGate(phi): a one-qubit circuit holding rz(-2.0 * phi)
SGateSignError(phi) ==
    [name |-> "rz", theta |-> AngleTimes(2, [q |-> phi, a |-> 0]), arg |-> phi]

SGate(phi) == [name |-> "rz", theta |-> AngleTimes(-2, [q |-> phi, a |-> 0]), arg |-> phi]

\* expected_w(x) = [[x, i sqrt(1-x^2)], [i sqrt(1-x^2), x]]
expected_w(xv) ==
    [e |-> << <<xv, 0>>, <<0, sqrt1mx2(xv)>>, <<0, sqrt1mx2(xv)>>, <<xv, 0>> >>, den |-> 1]

\* a variant with the two diagonal entries exchanged
expected_s_conjugate(phi) ==
    [e |-> << <<CosQ(-phi), SinQ(-phi)>>, <<0, 0>>, <<0, 0>>, <<CosQ(phi), SinQ(phi)>> >>,
     den |-> 0]

\* expected_s(phi) = diag(exp(1j*phi), exp(-1j*phi))
expected_s(phi) ==
    [e |-> << <<CosQ(phi), SinQ(phi)>>, <<0, 0>>, <<0, 0>>, <<CosQ(-phi), SinQ(-phi)>> >>,
     den |-> 0]

\* the unitary of one gate: Rx(t) = [[cos t/2, -i sin t/2], [-i sin t/2, cos t/2]],
\* Rz(t) = diag(exp(-i t/2), exp(i t/2))
GateMatrix(g) ==
    LET h == HalfAngle(g.theta)
    IN  IF g.name = "rx"
        THEN [e |-> << <<Cos5(h), 0>>, <<0, -Sin5(h)>>, <<0, -Sin5(h)>>, <<Cos5(h), 0>> >>,
              den |-> 1]
        ELSE [e |-> << <<Cos5(h), -Sin5(h)>>, <<0, 0>>, <<0, 0>>, <<Cos5(h), Sin5(h)>> >>,
              den |-> 1]

Identity == [e |-> << <<1, 0>>, <<0, 0>>, <<0, 0>>, <<1, 0>> >>, den |-> 0]

\* Operator(circ).data: each later gate multiplies from the left
RECURSIVE Operator(_)
Operator(gates) ==
    IF gates = <<>> THEN Identity
    ELSE MatMul(Operator(Tail(gates)), GateMatrix(Head(gates)))

\* ------------------------------------------------------- symbolic matrices

\* With x = sp.Symbol('x') an entry is p(x) + sqrt(1 - x**2) * q(x); p and q are
\* polynomials, kept as the sequences of their complex coefficients from x^0 up.
Coef(p, n) == IF n \in 1 .. Len(p) THEN p[n] ELSE <<0, 0>>

\* the polynomial without its vanishing leading coefficients
RECURSIVE Trimmed(_)
Trimmed(p) ==
    IF p # <<>> /\ p[Len(p)] = <<0, 0>> THEN Trimmed(SubSeq(p, 1, Len(p) - 1)) ELSE p

\* the coefficients of p + q from x^(n-1) up
RECURSIVE PolyAddFrom(_, _, _)
PolyAddFrom(p, q, n) ==
    IF n > Len(p) /\ n > Len(q) THEN <<>>
    ELSE <<CAdd(Coef(p, n), Coef(q, n))>> \o PolyAddFrom(p, q, n + 1)

PolyAdd(p, q) == Trimmed(PolyAddFrom(p, q, 1))

\* the coefficient of x^(n-1) in p * q, summed from p[i] on
RECURSIVE Convolution(_, _, _, _)
Convolution(p, q, n, i) ==
    IF i > Len(p) THEN <<0, 0>>
    ELSE CAdd(CMul(p[i], Coef(q, n + 1 - i)), Convolution(p, q, n, i + 1))

RECURSIVE PolyMulFrom(_, _, _)
PolyMulFrom(p, q, n) ==
    IF n > Len(p) + Len(q) - 1 THEN <<>>
    ELSE <<Convolution(p, q, n, 1)>> \o PolyMulFrom(p, q, n + 1)

PolyMul(p, q) == Trimmed(PolyMulFrom(p, q, 1))

PolyZero == <<>>

PolyConst(c) == Trimmed(<< c >>)

\* 1 - x**2
OneMinusX2 == << <<1, 0>>, <<0, 0>>, <<-1, 0>> >>

\* the product of two entries, with sqrt(1 - x**2)**2 = 1 - x**2
EntryMul(a, b) ==
    [p |-> PolyAdd(PolyMul(a.p, b.p), PolyMul(OneMinusX2, PolyMul(a.q, b.q))),
     q |-> PolyAdd(PolyMul(a.p, b.q), PolyMul(a.q, b.p))]

EntryAdd(a, b) == [p |-> PolyAdd(a.p, b.p), q |-> PolyAdd(a.q, b.q)]

SymMatMul(A, B) ==
    << EntryAdd(EntryMul(A[1], B[1]), EntryMul(A[2], B[3])),
       EntryAdd(EntryMul(A[1], B[2]), EntryMul(A[2], B[4])),
       EntryAdd(EntryMul(A[3], B[1]), EntryMul(A[4], B[3])),
       EntryAdd(EntryMul(A[3], B[2]), EntryMul(A[4], B[4])) >>

\* expected_w(x) for the symbol x
expected_w_squared ==
    LET xx == [p |-> << <<0, 0>>, <<0, 0>>, <<1, 0>> >>, q |-> PolyZero]
        is == [p |-> PolyZero, q |-> PolyConst(<<0, 1>>)]
    IN  <<xx, is, is, xx>>

expected_w_symbol ==
    LET xx == [p |-> << <<0, 0>>, <<1, 0>> >>, q |-> PolyZero]
        is == [p |-> PolyZero, q |-> PolyConst(<<0, 1>>)]
    IN  <<xx, is, is, xx>>

\* expected_s(phi), free of x
expected_s_symbol(phi) ==
    LET zero == [p |-> PolyZero, q |-> PolyZero]
    IN  << [p |-> PolyConst(<<CosQ(phi), SinQ(phi)>>), q |-> PolyZero], zero, zero,
           [p |-> PolyConst(<<CosQ(-phi), SinQ(-phi)>>), q |-> PolyZero] >>

\* the loop of qsp_polynomial for the symbol x
RECURSIVE SymbolLoop(_, _, _)
SymbolLoop(rest, j, acc) ==
    IF j > Len(rest) THEN acc
    ELSE SymbolLoop(rest, j + 1,
             SymMatMul(SymMatMul(acc, expected_w_symbol), expected_s_symbol(rest[j])))

\* ----------------------------------------------------------- QSP functions

\* `assert phases`: a list is true when it is not empty
AlwaysTrue(ph) == TRUE

Truthy(ph) == ph # <<>>

\* phases[1:], the phases the loop of qsp_polynomial runs over
WholeList(ph) == ph

Slice1(ph) == Tail(ph)

\* The loop of qsp_polynomial from element j of rest on; acc holds poly and the
\* record of the expected_s / expected_w calls made so far, in product order.
RECURSIVE PolyLoop(_, _, _, _)
PolyLoop(xv, rest, j, acc) ==
    IF j > Len(rest) THEN acc
    ELSE PolyLoop(xv, rest, j + 1,
             [poly    |-> MatMul(MatMul(acc.poly, expected_w(xv)), expected_s(rest[j])),
              factors |-> acc.factors \o << [fn |-> "expected_w", arg |-> xv],
                                            [fn |-> "expected_s", arg |-> rest[j]] >>])

\* qsp_polynomial(x, phases): what it raises, the factors it multiplied and U
qsp_polynomial(xv, ph) ==
    IF ~Truthy(ph)
    THEN [raised |-> "AssertionError: phases cannot be empty", factors |-> <<>>]
    ELSE IF Len(ph) = 0
    THEN [raised |-> "IndexError", factors |-> <<>>]
    ELSE LET done == PolyLoop(xv, Slice1(ph), 1,
                         [poly    |-> expected_s(ph[1]),
                          factors |-> << [fn |-> "expected_s", arg |-> ph[1]] >>])
         IN  [raised |-> "none", factors |-> done.factors, poly |-> simplify(done.poly),
              symbolic |-> SymbolLoop(Slice1(ph), 1, expected_s_symbol(ph[1]))]

\* np_phases.reverse()
NotReversed(s) == s

reverse(s) == Reversed(s)

\* The caller's list after qsp_circuit(x, phases): np_phases is a new list, and
\* it is np_phases that is reversed in place
CallerPhasesReversed(ph) == reverse(ph)

CallerPhasesAfter(ph) == ph

\* The loop of qsp_circuit from element j of rest on; gates are the gates
\* appended so far, in application order.
RECURSIVE CircLoop(_, _, _, _)
CircLoop(xv, rest, j, gates) ==
    IF j > Len(rest) THEN gates
    ELSE CircLoop(xv, rest, j + 1, gates \o <<WGate(xv), SGate(rest[j])>>)

\* the body of qsp_circuit once np_phases[0] exists
CircuitOf(xv, np_phases) ==
    [raised |-> "none", gates |-> CircLoop(xv, Tail(np_phases), 1, <<SGate(np_phases[1])>>)]

\* a variant that skips the gates when there is no phase
qsp_circuit_guarded(xv, ph) ==
    IF ph = <<>> THEN [raised |-> "none", gates |-> <<>>] ELSE CircuitOf(xv, reverse(ph))

\* qsp_circuit(x, phases): what it raises and the gates of the circuit it returns
qsp_circuit(xv, ph) ==
    LET np_phases == reverse(ph)
    IN  IF Len(np_phases) = 0
        THEN [raised |-> "IndexError", gates |-> <<>>]
        ELSE CircuitOf(xv, np_phases)

\* ------------------------------------------------------------------- state

VARIABLES
    x,            \* the notebook's x: the signal value of the unitary test
    phases,       \* the notebook's phases
    U,            \* what qsp_polynomial(x, phases) gave, None before the call
    circ,         \* what qsp_circuit(x, phases) gave, None before the call
    test,         \* the comparison of the unitary test: "none", "passed", "AssertionError"
    xs,           \* simulate_polynomial's argument xs
    num_shots,    \* simulate_polynomial's argument num_shots
    pc,           \* where simulate_polynomial is: "idle", "submit", "await", "blocked",
                  \* "returned", "raised"
    jobs,         \* the job handles collected so far by the list comprehension
    k,            \* how many elements of jobs the for loop has finished
    ys_simulated, \* the probabilities appended so far
    ret,          \* the list simulate_polynomial returned
    err,          \* the exception that left simulate_polynomial, "none" without one
    backend,      \* the jobs the backend holds, by job id
    calls,        \* the calls made to the backend and to the job handles, in order
    overtaken,    \* whether some job completed while an earlier one was still running
    gate_test,    \* the single-gate test: the phi drawn and the two comparisons
    discretization_points,  \* the notebook's discretization_points
    notebook,     \* the notebook the kernel runs
    namespace,    \* the kernel's global names and what each is bound to
    log,          \* the calls the cells made to the SDKs and to the notebook's functions
    ran,          \* the cells run so far: the cell, the error that ended it ("none"
                  \* when it ran to its end)
    cursor,       \* the cell the notebook's selection is at
    jumps         \* how many times a cell other than the selected one was run

qspVars == <<x, U, circ, test>>

sweepVars == <<xs, num_shots, pc, jobs, k, ys_simulated, ret, err, backend, calls, overtaken>>

kernelVars == <<notebook, namespace, log, ran, cursor, jumps>>

cellVars == <<gate_test, discretization_points, kernelVars>>

vars == <<x, phases, U, circ, test, xs, num_shots, pc, jobs, k, ys_simulated, ret, err,
          backend, calls, overtaken, gate_test, discretization_points,
          notebook, namespace, log, ran, cursor, jumps>>

\* discretization_points = 30
DiscretizationPoints == 30

\* no gate has been tested
NoGateTest == [phi |-> 0, w |-> "none", s |-> "none"]

\* ------------------------------------------------------------ the kernel

\* What a global name is bound to, as far as the cells' behaviour depends on it.
Unbound == [kind |-> "unbound"]

Object == [kind |-> "object"]

Float == [kind |-> "float"]

\* sp.Symbol(name)
Symbol(name) == [kind |-> "Symbol", name |-> name]

\* a backend or target object of the workspace, by its target name
Target(name) == [kind |-> "target", name |-> name]

\* a job handle, by the position of its submission among the calls
Job(id) == [kind |-> "job", id |-> id]

\* a SymPy expression or matrix, by the names of the symbols it depends on
Expr(free) == [kind |-> "expr", free |-> free]

\* a function of the notebook; form tells two definitions of one name apart
Function(form) == [kind |-> "function", form |-> form]

\* One statement of a cell: the global names it reads (those read inside the
\* functions it calls included), the names it binds to fixed values, and the
\* call it logs: its kind, the name of the object called on ("" for none), the
\* names passed, the shots passed (0 for none) and the names bound to its result.
Bind(reads, names, value) ==
    [reads |-> reads, binds |-> [n \in names |-> value], call |-> "none", on |-> "",
     args |-> {}, shots |-> 0, out |-> {}]

Read(reads) == Bind(reads, {}, Object)

Import(names) == Bind({}, names, Object)

Call(reads, kind, on, args, nshots, out) ==
    [reads |-> reads \cup args \cup (IF on = "" THEN {} ELSE {on}),
     binds |-> [n \in {} |-> Object], call |-> kind, on |-> on, args |-> args,
     shots |-> nshots, out |-> out]

\* the names bound in a namespace
Bound(ns) == {n \in DOMAIN ns : ns[n] # Unbound}

\* what a call returns
ResultOf(st, ns, lg) ==
    CASE st.call = "submit" -> Job(Len(lg) + 1)
      [] st.call = "qsp_polynomial" ->
             Expr(IF ns["x"].kind = "Symbol" THEN {ns["x"].name} ELSE {})
      [] st.call = "subs" ->
             Expr(IF ns[st.on].kind = "expr" THEN ns[st.on].free \ {"x"} ELSE {})
      [] OTHER -> Object

\* the entry a call leaves in the log
EventOf(st, ns, lg) ==
    [call |-> st.call,
     on |-> IF st.on = "" THEN Unbound ELSE ns[st.on],
     args |-> [n \in st.args |-> ns[n]],
     shots |-> st.shots,
     result |-> ResultOf(st, ns, lg)]

\* One statement run in namespace ns with log lg: a NameError when a name it
\* reads is not bound, else the bindings and the log entry it leaves.
Exec(st, ns, lg) ==
    IF \E n \in st.reads : ns[n] = Unbound
    THEN [ns |-> ns, log |-> lg, error |-> "NameError"]
    ELSE [ns |-> [n \in DOMAIN ns |->
                     IF n \in DOMAIN st.binds THEN st.binds[n]
                     ELSE IF n \in st.out THEN ResultOf(st, ns, lg)
                     ELSE ns[n]],
          log |-> IF st.call = "none" THEN lg ELSE Append(lg, EventOf(st, ns, lg)),
          error |-> "none"]

\* The statements of a cell from the i-th on: the first error ends the cell and
\* keeps what the statements before it did.
RECURSIVE RunFrom(_, _, _, _)
RunFrom(cell, i, ns, lg) ==
    IF i > Len(cell) THEN [ns |-> ns, log |-> lg, error |-> "none"]
    ELSE LET r == Exec(cell[i], ns, lg)
         IN  IF r.error # "none" THEN r ELSE RunFrom(cell, i + 1, r.ns, r.log)

RunCell(cell, ns, lg) == RunFrom(cell, 1, ns, lg)

\* the target names the notebooks use
IonqQpuAria1 == "ionq.qpu.aria-1"

RigettiQvm == "rigetti.sim.qvm"

IonqSimulator == "ionq.simulator"

PasqalEmuTn == "pasqal.sim.emu-tn"

\* Hello, world: Submit a Qiskit job to Rigetti
RigettiConnect ==
    << Import({"Workspace", "AzureQuantumProvider"}),
       Call({"Workspace"}, "connect", "", {}, 0, {"workspace"}),
       Bind({"AzureQuantumProvider", "workspace"}, {"provider"}, Object) >>

\* the loop variable backend is bound only when the workspace has a target; no
\* cell of this notebook reads it
RigettiTargets ==
    << Import({"QuantumCircuit", "plot_histogram"}),
       Call({}, "backends", "provider", {}, 0, {}) >>

RigettiCircuit ==
    << Call({"QuantumCircuit"}, "build", "", {}, 0, {"circuit"}),
       Read({"circuit"}) >>

RigettiSubmitNoImport ==
    << Bind({"provider", "RigettiTarget"}, {"rigetti_simulator_backend"}, Target(RigettiQvm)),
       Call({}, "submit", "rigetti_simulator_backend", {"circuit"}, 100, {"job"}),
       Read({"job"}) >>

RigettiSubmit ==
    << Import({"RigettiTarget"}),
       Bind({"provider", "RigettiTarget"}, {"rigetti_simulator_backend"}, Target(RigettiQvm)),
       Call({}, "submit", "rigetti_simulator_backend", {"circuit"}, 100, {"job"}),
       Read({"job"}) >>

RigettiResult ==
    << Import({"plt"}),
       Read({"plt"}),
       Call({}, "result", "job", {}, 0, {"result"}),
       Read({"plot_histogram", "result", "circuit"}) >>

RigettiNotebook ==
    <<RigettiConnect, RigettiTargets, RigettiCircuit, RigettiSubmit, RigettiResult>>

\* Hello, world: Submit a Qiskit job to IonQ
IonqConnect ==
    << Import({"Workspace", "AzureQuantumProvider"}),
       Call({"Workspace"}, "connect", "", {}, 0, {"workspace"}),
       Bind({"AzureQuantumProvider", "workspace"}, {"provider"}, Object) >>

IonqTargets ==
    << Import({"QuantumCircuit", "plot_histogram"}),
       Call({}, "backends", "provider", {}, 0, {}) >>

IonqCircuit ==
    << Call({"QuantumCircuit"}, "build", "", {}, 0, {"circuit"}),
       Read({"circuit"}) >>

IonqSubmit ==
    << Bind({"provider"}, {"ionq_simulator_backend"}, Target(IonqSimulator)),
       Call({}, "submit", "ionq_simulator_backend", {"circuit"}, 100, {"job"}),
       Read({"job"}) >>

IonqResultTwice ==
    << Call({}, "result", "job", {}, 0, {"result"}),
       Call({}, "result", "job", {}, 0, {"result"}),
       Read({"plot_histogram", "result", "circuit"}) >>

IonqResult ==
    << Call({}, "result", "job", {}, 0, {"result"}),
       Read({"plot_histogram", "result", "circuit"}) >>

IonqNotebook == <<IonqConnect, IonqTargets, IonqCircuit, IonqSubmit, IonqResult>>

\* Hello, world: Submit a Pulser job to Pasqal
PasqalConnect ==
    << Import({"Workspace"}),
       Call({"Workspace"}, "connect", "", {}, 0, {"workspace"}) >>

\* the loop variable target is bound only when the workspace has a target; the
\* submit cell binds target itself before it reads it
PasqalTargets ==
    << Call({}, "get_targets", "workspace", {}, 0, {}) >>

PasqalSequence ==
    << Import({"math", "pulser"}),
       Bind({"pulser"}, {"reg"}, Object),
       Read({"reg"}),
       Bind({}, {"duration"}, Object),
       Bind({"pulser", "duration", "math"}, {"pi_pulse"}, Object),
       Call({"pulser", "reg"}, "build", "", {}, 0, {"seq"}),
       Read({"seq", "pi_pulse"}) >>

PasqalSubmit ==
    << Bind({"workspace"}, {"target"}, Target(PasqalEmuTn)),
       Call({}, "submit", "target", {"seq"}, 100, {"job"}),
       Read({"job"}) >>

PasqalResult ==
    << Call({}, "result", "job", {}, 0, {"result"}),
       Read({"result"}) >>

PasqalNotebook ==
    <<PasqalConnect, PasqalTargets, PasqalSequence, PasqalSubmit, PasqalResult>>

\* Quantum signal processing: the code cells, in order. A function definition
\* reads nothing; what its body reads is read by the statement that calls it.
QspImports ==
    << Import({"QuantumCircuit", "transpile", "Operator", "np", "random", "sp", "plt",
               "acos", "printing", "display", "Markdown"}) >>

QspGates == << Bind({"QuantumCircuit"}, {"WGate", "SGate"}, Object) >>

QspExpected == << Bind({}, {"expected_w", "expected_s"}, Function("def")) >>

QspGateTest ==
    << Bind({"random"}, {"x"}, Float),
       Bind({"QuantumCircuit", "WGate", "acos", "x"}, {"circ"}, Object),
       Bind({"Operator", "circ"}, {"actual"}, Object),
       Bind({"np", "expected_w", "sp", "x"}, {"expected"}, Object),
       Read({"np", "actual", "expected"}),
       Bind({"random", "np"}, {"phi"}, Float),
       Bind({"QuantumCircuit", "SGate", "phi"}, {"circ"}, Object),
       Bind({"Operator", "circ"}, {"actual"}, Object),
       Bind({"np", "expected_s", "sp", "phi"}, {"expected"}, Object),
       Read({"np", "actual", "expected"}) >>

QspPolynomialDef == << Bind({}, {"qsp_polynomial"}, Function("def")) >>

\* the names the body of qsp_polynomial reads
QspPolynomialReads == {"qsp_polynomial", "expected_s", "expected_w", "sp"}

QspSymbolicKeepsFloat ==
    << Bind({}, {"phases"}, Object),
       Call(QspPolynomialReads, "qsp_polynomial", "", {"x", "phases"}, 0, {"U", "poly", "_"}),
       Read({"display", "Markdown", "poly"}) >>

QspSymbolic ==
    << Bind({"sp"}, {"x"}, Symbol("x")),
       Bind({}, {"phases"}, Object),
       Call(QspPolynomialReads, "qsp_polynomial", "", {"x", "phases"}, 0, {"U", "poly", "_"}),
       Read({"display", "Markdown", "poly"}) >>

\* the x of the list comprehension is local to it
QspDiscretize ==
    << Bind({"sp", "poly"}, {"poly_abs"}, Object),
       Bind({}, {"discretization_points"}, Object),
       Bind({"np", "discretization_points"}, {"xs"}, Object),
       Bind({"poly_abs", "xs"}, {"ys"}, Object),
       Bind({"plt"}, {"fig"}, Object),
       Bind({"fig"}, {"ax"}, Object),
       Read({"ax", "xs", "ys", "plt"}) >>

QspCircuitDef == << Bind({}, {"qsp_circuit"}, Function("def")) >>

\* the names the body of qsp_circuit reads
QspCircuitReads == {"qsp_circuit", "QuantumCircuit", "SGate", "WGate", "acos"}

QspUnitaryTest ==
    << Bind({"random"}, {"x"}, Float),
       Bind(QspCircuitReads \cup {"x", "phases"}, {"circ"}, Object),
       Bind({"Operator", "circ"}, {"actual"}, Object),
       Call({"np"}, "subs", "U", {"x"}, 0, {"expected"}),
       Read({"np", "actual", "expected"}) >>

QspConnect ==
    << Import({"Workspace", "AzureQuantumProvider"}),
       Call({"Workspace"}, "connect", "", {}, 0, {"workspace"}),
       Bind({"AzureQuantumProvider", "workspace"}, {"provider"}, Object) >>

QspBackend ==
    << Call({}, "backends", "provider", {}, 0, {}),
       Bind({"provider"}, {"backend"}, Target(IonqSimulator)) >>

QspSimulateDef == << Bind({}, {"simulate_polynomial"}, Function("def")) >>

\* the names simulate_polynomial and experiment_circuit read when called
QspSweepReads == QspCircuitReads \cup {"simulate_polynomial", "phases", "transpile"}

QspSweep ==
    << Bind({}, {"num_shots"}, Object),
       Bind({}, {"experiment_circuit"}, Function("measured")),
       Call(QspSweepReads, "sweep", "backend", {"experiment_circuit", "xs", "num_shots"},
            100, {"ys_simulated"}),
       Bind({"plt"}, {"fig"}, Object),
       Bind({"fig"}, {"ax"}, Object),
       Read({"ax", "xs", "ys", "ys_simulated", "plt"}) >>

QspSymbolicPlus ==
    << Bind({"sp"}, {"x"}, Symbol("x")),
       Bind({}, {"phases"}, Object),
       Call(QspPolynomialReads, "qsp_polynomial", "", {"x", "phases"}, 0,
            {"_", "poly", "qpoly"}) >>

QspDiscretizePlus ==
    << Bind({"sp", "poly", "qpoly"}, {"sum_poly"}, Object),
       Bind({"sp", "sum_poly"}, {"sum_poly_abs"}, Object),
       Bind({}, {"discretization_points"}, Object),
       Bind({"np", "discretization_points"}, {"xs"}, Object),
       Bind({"sum_poly_abs", "xs"}, {"ys"}, Object),
       Bind({"plt"}, {"fig"}, Object),
       Bind({"fig"}, {"ax"}, Object),
       Read({"ax", "xs", "ys", "plt"}) >>

QspSweepPlus ==
    << Bind({}, {"experiment_circuit"}, Function("h_sandwich")),
       Call(QspSweepReads, "sweep", "backend", {"experiment_circuit", "xs", "num_shots"},
            100, {"ys_simulated"}),
       Bind({"plt"}, {"fig"}, Object),
       Bind({"fig"}, {"ax"}, Object),
       Read({"ax", "xs", "ys", "ys_simulated", "plt"}) >>

QspNotebook ==
    <<QspImports, QspGates, QspExpected, QspGateTest, QspPolynomialDef, QspSymbolic,
      QspDiscretize, QspCircuitDef, QspUnitaryTest, QspConnect, QspBackend,
      QspSimulateDef, QspSweep, QspSymbolicPlus, QspDiscretizePlus, QspSweepPlus>>

NotebookNames == {"rigetti", "ionq", "pasqal", "qsp"}

CellsOf(nb) ==
    CASE nb = "rigetti" -> RigettiNotebook
      [] nb = "ionq" -> IonqNotebook
      [] nb = "pasqal" -> PasqalNotebook
      [] nb = "qsp" -> QspNotebook

\* the names a statement reads or binds
NamesOfStatement(st) == st.reads \cup DOMAIN st.binds \cup st.out

\* every global name of the notebooks
Names ==
    UNION {NamesOfStatement(CellsOf(nb)[c][i]) :
             <<nb, c, i>> \in {t \in NotebookNames \X (1 .. 16) \X (1 .. 10) :
                                 /\ t[2] <= Len(CellsOf(t[1]))
                                 /\ t[3] <= Len(CellsOf(t[1])[t[2]])}}

\* a kernel just started
FreshNamespace == [n \in Names |-> Unbound]

\* no notebook is run: only the definition of experiment_circuit is in place
KernelIdle(form) ==
    /\ notebook = "qsp"
    /\ namespace = [FreshNamespace EXCEPT !["experiment_circuit"] = Function(form)]
    /\ log = <<>>
    /\ ran = <<>>
    /\ cursor = 1
    /\ jumps = 0

\* ---------------------------------------------- the functions, applied

SweepIdle ==
    /\ xs = <<>>
    /\ num_shots = 0
    /\ pc = "idle"
    /\ jobs = <<>>
    /\ k = 0
    /\ ys_simulated = <<>>
    /\ ret = <<>>
    /\ err = "none"
    /\ backend = <<>>
    /\ calls = <<>>
    /\ overtaken = FALSE

InitQSP ==
    /\ x \in XGrid
    /\ phases \in SeqsUpTo(PhaseVals, MaxLen)
    /\ U = None
    /\ circ = None
    /\ test = "none"
    /\ SweepIdle
    /\ gate_test = NoGateTest
    /\ discretization_points = DiscretizationPoints
    /\ KernelIdle("measured")

CallQspPolynomial ==
    /\ pc = "idle"
    /\ U = None
    /\ U' = qsp_polynomial(x, phases)
    /\ UNCHANGED <<x, phases, circ, test>>
    /\ UNCHANGED sweepVars
    /\ UNCHANGED cellVars

CallQspCircuit ==
    /\ pc = "idle"
    /\ circ = None
    /\ circ' = qsp_circuit(x, phases)
    /\ phases' = CallerPhasesAfter(phases)
    /\ UNCHANGED <<x, U, test>>
    /\ UNCHANGED sweepVars
    /\ UNCHANGED cellVars

\* one round of the loop "Test QSP polynomial"
TestUnitary ==
    /\ pc = "idle"
    /\ test = "none"
    /\ U.raised = "none"
    /\ circ.raised = "none"
    /\ test' = IF allclose(Operator(circ.gates), U.poly) THEN "passed" ELSE "AssertionError"
    /\ UNCHANGED <<x, phases, U, circ>>
    /\ UNCHANGED sweepVars
    /\ UNCHANGED cellVars

\* one round of the loop that tests WGate and SGate: a circuit holding the one
\* gate, its unitary, and the comparison with expected_w(x) / expected_s(phi)
TestGates ==
    /\ pc = "idle"
    /\ gate_test = NoGateTest
    /\ \E phi \in PhaseVals :
          LET w == IF allclose(Operator(<<WGate(x)>>), expected_w(x))
                   THEN "passed" ELSE "AssertionError"
              sg == IF allclose(Operator(<<SGate(phi)>>), expected_s(phi))
                    THEN "passed" ELSE "AssertionError"
          IN  gate_test' = [phi |-> phi, w |-> w,
                            s |-> IF w = "passed" THEN sg ELSE "none"]
    /\ UNCHANGED <<x, phases, U, circ, test, discretization_points>>
    /\ UNCHANGED sweepVars
    /\ UNCHANGED kernelVars

NextQSP == CallQspPolynomial \/ CallQspCircuit \/ TestUnitary \/ TestGates

SpecQSP == InitQSP /\ [][NextQSP]_vars

\* ------------------------------------------------------ simulate_polynomial

\* num_shots = 100
NumShots == 100

\* the signal values and phase lists the sweeps are drawn from
SweepXs == {0, 3}

SweepPhases == {<<>>, <<0, 1, 3>>}

OutcomeKeys == {"0", "1"}

\* the outcome counts a job can report: a mapping from observed outcomes to counts
CountsSet == UNION {[D -> 1 .. MaxCount] : D \in SUBSET OutcomeKeys}

NoCounts == [o \in {} |-> 0]

\* circ.measure_all()
measure_all(gates) == Append(gates, [name |-> "measure"])

\* transpile(circ, backend): the circuit compiled for the backend, kept as the
\* target and the operations it was compiled from
transpile(gates) == [target |-> "ionq.simulator", ops |-> gates]

\* h_circ.h(0)
h_circ == << [name |-> "h"] >>

\* the body of experiment_circuit of section 2 after qsp_circuit returned
Section2Circuit(gates) == transpile(measure_all(gates))

\* a variant that composes the second H before the QSP gates
Section3CircuitMiscomposed(gates) == transpile(measure_all((h_circ \o h_circ) \o gates))

\* the body of experiment_circuit of section 3 after qsp_circuit returned:
\* circ = h_circ.compose(circ).compose(h_circ); circ.measure_all(); transpile
Section3Circuit(gates) == transpile(measure_all((h_circ \o gates) \o h_circ))

\* experiment_circuit(x), as section 2 or section 3 defined it last
experiment_circuit(xv) ==
    LET c == qsp_circuit(xv, phases)
    IN  IF c.raised # "none" THEN c
        ELSE [raised |-> "none",
              circuit |-> IF namespace["experiment_circuit"].form = "h_sandwich"
                          THEN Section3Circuit(c.gates)
                          ELSE Section2Circuit(c.gates)]

\* counts.get('0', 0)
get0(counts) == IF "0" \in DOMAIN counts THEN counts["0"] ELSE 0

\* counts.shots(): the sum of all counts
shots(counts) ==
    (IF "0" \in DOMAIN counts THEN counts["0"] ELSE 0)
    + (IF "1" \in DOMAIN counts THEN counts["1"] ELSE 0)

RECURSIVE Gcd(_, _)
Gcd(m, n) == IF n = 0 THEN m ELSE Gcd(n, m % n)

\* m / n as a fraction in lowest terms
DivideSwapped(m, n) == << n \div Gcd(m, n), m \div Gcd(m, n) >>

Divide(m, n) == << m \div Gcd(m, n), n \div Gcd(m, n) >>

\* `for x in xs`: the x the list comprehension is at
StaleX == xs[1]

CurrentX == xs[Len(jobs) + 1]

\* the list comprehension has run over all of xs
AllSubmittedNever == Len(jobs) > Len(xs)

AllSubmittedEarly == Len(jobs) >= 1 \/ Len(xs) = 0

AllSubmitted == Len(jobs) = Len(xs)

\* `for job in jobs`: the job the loop is at
NextJobBackwards == jobs[Len(jobs) - k]

NextJob == jobs[k + 1]

\* job.result() returns once the job is done
ResultReadyAtOnce(j) == TRUE

ResultReady(j) == backend[j].status = "done"

\* ys_simulated.append(probability)
Prepended(ys, p) == <<p>> \o ys

appended(ys, p) == Append(ys, p)

InitSweep ==
    /\ x = 0
    /\ phases \in SweepPhases
    /\ U = None
    /\ circ = None
    /\ test = "none"
    /\ xs \in SeqsUpTo(SweepXs, MaxXs)
    /\ num_shots \in {0, NumShots}
    /\ pc = "submit"
    /\ jobs = <<>>
    /\ k = 0
    /\ ys_simulated = <<>>
    /\ ret = <<>>
    /\ err = "none"
    /\ backend = <<>>
    /\ calls = <<>>
    /\ overtaken = FALSE
    /\ gate_test = NoGateTest
    /\ discretization_points = DiscretizationPoints
    /\ \E form \in {"measured", "h_sandwich"} : KernelIdle(form)

\* circuit_function(x) raises: the exception leaves simulate_polynomial
CircuitFails ==
    /\ pc = "submit"
    /\ Len(jobs) < Len(xs)
    /\ experiment_circuit(CurrentX).raised # "none"
    /\ pc' = "raised"
    /\ err' = experiment_circuit(CurrentX).raised
    /\ phases' = CallerPhasesAfter(phases)
    /\ UNCHANGED <<xs, num_shots, jobs, k, ys_simulated, ret, backend, calls, overtaken>>
    /\ UNCHANGED qspVars
    /\ UNCHANGED cellVars

\* backend.run(circuit_function(x), shots=num_shots) for the next x
Submit ==
    /\ pc = "submit"
    /\ Len(jobs) < Len(xs)
    /\ LET c == experiment_circuit(CurrentX)
           id == Len(backend) + 1
       IN  /\ c.raised = "none"
           /\ backend' = Append(backend, [circuit |-> c.circuit, shots |-> num_shots,
                                          status |-> "running", failed |-> FALSE,
                                          counts |-> NoCounts])
           /\ jobs' = Append(jobs, id)
           /\ calls' = Append(calls, <<"run", Len(jobs) + 1>>)
    /\ phases' = CallerPhasesAfter(phases)
    /\ UNCHANGED <<xs, num_shots, pc, k, ys_simulated, ret, err, overtaken>>
    /\ UNCHANGED qspVars
    /\ UNCHANGED cellVars

\* a variant that catches the exception and tries the same submission again
SubmitFailsRetried ==
    /\ pc = "submit"
    /\ Len(jobs) < Len(xs)
    /\ experiment_circuit(CurrentX).raised = "none"
    /\ calls' = Append(calls, <<"run", Len(jobs) + 1>>)
    /\ err' = "SubmissionError"
    /\ UNCHANGED <<xs, num_shots, pc, jobs, k, ys_simulated, ret, backend, overtaken>>
    /\ phases' = CallerPhasesAfter(phases)
    /\ UNCHANGED qspVars
    /\ UNCHANGED cellVars

\* a variant that cancels the jobs submitted so far before the exception leaves
SubmitFailsCancelling ==
    /\ pc = "submit"
    /\ Len(jobs) < Len(xs)
    /\ experiment_circuit(CurrentX).raised = "none"
    /\ calls' = Append(calls, <<"run", Len(jobs) + 1>>)
    /\ pc' = "raised"
    /\ err' = "SubmissionError"
    /\ backend' = [j \in 1 .. Len(backend) |-> [backend[j] EXCEPT !.status = "cancelled"]]
    /\ UNCHANGED <<xs, num_shots, jobs, k, ys_simulated, ret, overtaken>>
    /\ phases' = CallerPhasesAfter(phases)
    /\ UNCHANGED qspVars
    /\ UNCHANGED cellVars

\* backend.run raises: the exception leaves simulate_polynomial
SubmitFails ==
    /\ pc = "submit"
    /\ Len(jobs) < Len(xs)
    /\ experiment_circuit(CurrentX).raised = "none"
    /\ calls' = Append(calls, <<"run", Len(jobs) + 1>>)
    /\ pc' = "raised"
    /\ err' = "SubmissionError"
    /\ UNCHANGED <<xs, num_shots, jobs, k, ys_simulated, ret, backend, overtaken>>
    /\ phases' = CallerPhasesAfter(phases)
    /\ UNCHANGED qspVars
    /\ UNCHANGED cellVars

\* the list comprehension is done: jobs is bound and the for loop starts
StartAwait ==
    /\ pc = "submit"
    /\ AllSubmitted
    /\ pc' = "await"
    /\ UNCHANGED <<xs, num_shots, jobs, k, ys_simulated, ret, err, backend, calls, overtaken>>
    /\ UNCHANGED <<phases, qspVars>>
    /\ UNCHANGED cellVars

\* job.result() is called on the next job of the loop
RequestResult ==
    /\ pc = "await"
    /\ k < Len(jobs)
    /\ calls' = Append(calls, <<"result", NextJob>>)
    /\ pc' = "blocked"
    /\ UNCHANGED <<xs, num_shots, jobs, k, ys_simulated, ret, err, backend, overtaken>>
    /\ UNCHANGED <<phases, qspVars>>
    /\ UNCHANGED cellVars

\* where the call is after job.result() raised: no try surrounds the loop
\* a division that answers 0 for a zero divisor
truedivZeroAsZero(m, n) ==
    IF n = 0 THEN [raised |-> "none", value |-> <<0, 1>>]
             ELSE [raised |-> "none", value |-> Divide(m, n)]

\* counts.get('0', 0) / counts.shots(): Python's / raises on a zero divisor
truediv(m, n) ==
    IF n = 0 THEN [raised |-> "ZeroDivisionError", value |-> <<0, 1>>]
             ELSE [raised |-> "none", value |-> Divide(m, n)]

ResultErrorCaught == "await"

ResultErrorRaised == "raised"

\* job.result() returns or raises; the probability is computed and appended
ObtainResult ==
    /\ pc = "blocked"
    /\ LET j == calls[Len(calls)][2]
           probability == truediv(get0(backend[j].counts), shots(backend[j].counts))
       IN  /\ ResultReady(j)
           /\ IF backend[j].failed
              THEN /\ pc' = ResultErrorRaised
                   /\ err' = "JobError"
                   /\ UNCHANGED <<k, ys_simulated>>
              ELSE IF probability.raised # "none"
              THEN /\ pc' = "raised"
                   /\ err' = probability.raised
                   /\ UNCHANGED <<k, ys_simulated>>
              ELSE /\ ys_simulated' = appended(ys_simulated, probability.value)
                   /\ k' = k + 1
                   /\ pc' = "await"
                   /\ UNCHANGED err
    /\ UNCHANGED <<xs, num_shots, jobs, ret, backend, calls, overtaken>>
    /\ UNCHANGED <<phases, qspVars>>
    /\ UNCHANGED cellVars

\* return ys_simulated
Return ==
    /\ pc = "await"
    /\ k = Len(jobs)
    /\ ret' = ys_simulated
    /\ pc' = "returned"
    /\ UNCHANGED <<xs, num_shots, jobs, k, ys_simulated, err, backend, calls, overtaken>>
    /\ UNCHANGED <<phases, qspVars>>
    /\ UNCHANGED cellVars

\* the backend finishes job j, with outcome counts or with a failure
Complete(j) ==
    /\ j \in 1 .. Len(backend)
    /\ backend[j].status = "running"
    /\ \/ \E c \in CountsSet :
            backend' = [backend EXCEPT ![j].status = "done", ![j].counts = c]
       \/ backend' = [backend EXCEPT ![j].status = "done", ![j].failed = TRUE]
    /\ overtaken' = (overtaken \/ \E i \in 1 .. j - 1 : backend[i].status = "running")
    /\ UNCHANGED <<xs, num_shots, pc, jobs, k, ys_simulated, ret, err, calls>>
    /\ UNCHANGED <<phases, qspVars>>
    /\ UNCHANGED cellVars

JobCompletes == \E j \in 1 .. MaxXs : Complete(j)

Program ==
    \/ CircuitFails
    \/ Submit
    \/ SubmitFails
    \/ StartAwait
    \/ RequestResult
    \/ ObtainResult
    \/ Return

Next == Program \/ JobCompletes

Spec == InitSweep /\ [][Next]_vars

\* The notebook's sections 1 and 2: the tests of the functions run while no sweep
\* is running (the kernel runs one cell at a time), and the sweep on its own.
SpecNotebook == (InitQSP \/ InitSweep) /\ [][NextQSP \/ Next]_vars

\* The interpreter keeps running the call, and every job the backend holds is
\* eventually finished.
FairSpec ==
    /\ Spec
    /\ WF_vars(Program)
    /\ \A j \in 1 .. MaxXs : WF_vars(Complete(j))

\* ------------------------------------------------- the notebook's own inputs

\* The cells that choose the signal values: the random draws of the two tests
\* and the grid of the sweep. A value is the fraction num / den; a circuit is
\* kept as the builder called and the value passed to it.

\* random.rand() is in [0, 1): the tenths r / 10, r in 0 .. 9
RandTenths == 0 .. 9

\* x = random.rand() * 2 + 1
RandomXShifted(r) == [num |-> 2 * r + 10, den |-> 10]

\* x = random.rand() * 2 - 1
RandomX(r) == [num |-> 2 * r - 10, den |-> 10]

\* np.linspace(-1, 1, n): n points, the first -1, the last 1, evenly spaced
linspace(n) == [i \in 1 .. n |-> [num |-> 2 * (i - 1) - (n - 1), den |-> n - 1]]

\* s[1:-1]
Interior(s) == SubSeq(s, 2, Len(s) - 1)

\* the values of discretization_points a reader may set
PointCounts == 2 .. DiscretizationPoints

InitCells ==
    /\ x = 0
    /\ phases \in SweepPhases
    /\ U = None
    /\ circ = None
    /\ test = "none"
    /\ xs = <<>>
    /\ num_shots = NumShots
    /\ pc = "cell"
    /\ jobs = <<>>
    /\ k = 0
    /\ ys_simulated = <<>>
    /\ ret = <<>>
    /\ err = "none"
    /\ backend = <<>>
    /\ calls = <<>>
    /\ overtaken = FALSE
    /\ gate_test = NoGateTest
    /\ discretization_points \in PointCounts
    /\ KernelIdle("measured")

\* one round of the WGate test loop: draw x, append WGate(x)
DrawForWGate ==
    /\ pc = "cell"
    /\ \E r \in RandTenths :
          /\ x' = RandomX(r)
          /\ circ' = [builder |-> "WGate", x |-> RandomX(r)]
    /\ UNCHANGED <<phases, U, test>>
    /\ UNCHANGED sweepVars
    /\ UNCHANGED cellVars

\* xs = np.linspace(-1, 1, discretization_points)[1:-1]
Discretize ==
    /\ pc = "cell"
    /\ xs' = Interior(linspace(discretization_points))
    /\ pc' = "grid"
    /\ UNCHANGED <<num_shots, jobs, k, ys_simulated, ret, err, backend, calls, overtaken>>
    /\ UNCHANGED <<phases, qspVars, cellVars>>

\* one round of the unitary test loop: draw x, circ = qsp_circuit(x, phases)
DrawForQspCircuit ==
    /\ pc = "grid"
    /\ jobs = <<>>
    /\ \E r \in RandTenths :
          /\ x' = RandomX(r)
          /\ circ' = [builder |-> "qsp_circuit", x |-> RandomX(r)]
    /\ UNCHANGED <<phases, U, test>>
    /\ UNCHANGED sweepVars
    /\ UNCHANGED cellVars

\* the list comprehension of simulate_polynomial(experiment_circuit, xs,
\* num_shots), one element: experiment_circuit(x) calls qsp_circuit(x, phases)
SubmitGridPoint ==
    /\ pc = "grid"
    /\ Len(jobs) < Len(xs)
    /\ backend' = Append(backend,
                     [circuit |-> [builder |-> "qsp_circuit", x |-> xs[Len(jobs) + 1]],
                      shots |-> num_shots, status |-> "running", failed |-> FALSE,
                      counts |-> NoCounts])
    /\ jobs' = Append(jobs, Len(backend) + 1)
    /\ calls' = Append(calls, <<"run", Len(jobs) + 1>>)
    /\ UNCHANGED <<xs, num_shots, pc, k, ys_simulated, ret, err, overtaken>>
    /\ UNCHANGED <<phases, qspVars, cellVars>>

\* the list comprehension is exhausted: every job of the sweep is submitted
GridSubmitted ==
    /\ pc = "grid"
    /\ Len(jobs) = Len(xs)
    /\ pc' = "submitted"
    /\ UNCHANGED <<xs, num_shots, jobs, k, ys_simulated, ret, err, backend, calls, overtaken>>
    /\ UNCHANGED <<phases, qspVars, cellVars>>

NextCells ==
    \/ DrawForWGate
    \/ Discretize
    \/ DrawForQspCircuit
    \/ SubmitGridPoint
    \/ GridSubmitted

SpecCells == InitCells /\ [][NextCells]_vars

\* ------------------------------------------------------ running the cells

\* how many times the reader runs a cell other than the selected one
MaxJumps == 1

InitKernel ==
    /\ x = 0
    /\ phases = <<>>
    /\ U = None
    /\ circ = None
    /\ test = "none"
    /\ xs = <<>>
    /\ num_shots = 0
    /\ pc = "kernel"
    /\ jobs = <<>>
    /\ k = 0
    /\ ys_simulated = <<>>
    /\ ret = <<>>
    /\ err = "none"
    /\ backend = <<>>
    /\ calls = <<>>
    /\ overtaken = FALSE
    /\ gate_test = NoGateTest
    /\ discretization_points = DiscretizationPoints
    /\ notebook \in NotebookNames
    /\ namespace = FreshNamespace
    /\ log = <<>>
    /\ ran = <<>>
    /\ cursor = 1
    /\ jumps = 0

\* the kernel runs cell c: its statements in order up to the first error; the
\* selection moves to the cell below
Run(c) ==
    LET r == RunCell(CellsOf(notebook)[c], namespace, log)
    IN  /\ namespace' = r.ns
        /\ log' = r.log
        /\ ran' = Append(ran, [cell |-> c, error |-> r.error])
        /\ cursor' = c + 1

\* the reader runs the selected cell
RunSelected ==
    /\ pc = "kernel"
    /\ cursor <= Len(CellsOf(notebook))
    /\ Run(cursor)
    /\ UNCHANGED <<notebook, jumps>>
    /\ UNCHANGED <<phases, qspVars, sweepVars, gate_test, discretization_points>>

\* the reader selects another cell and runs it
RunOther ==
    /\ pc = "kernel"
    /\ jumps < MaxJumps
    /\ \E c \in 1 .. Len(CellsOf(notebook)) :
          /\ c # cursor
          /\ Run(c)
    /\ jumps' = jumps + 1
    /\ UNCHANGED notebook
    /\ UNCHANGED <<phases, qspVars, sweepVars, gate_test, discretization_points>>

NextKernel == RunSelected \/ RunOther

SpecKernel == InitKernel /\ [][NextKernel]_vars

\* Sections 2 and 3 of the QSP notebook: the cells that define experiment_circuit
\* and call simulate_polynomial, and the sweep such a call runs.
SpecSections == (InitKernel \/ InitSweep) /\ [][NextKernel \/ Next]_vars

\* ------------------------------------------------------------------ claims

\* the calls of one kind, in the order they were made
CallsOf(kind) == SelectSeq(calls, LAMBDA c : c[1] = kind)

\* the probability simulate_polynomial derives from the result of job j
ProbabilityOf(j) == Divide(get0(backend[j].counts), shots(backend[j].counts))

\* C1: whatever the order in which the jobs complete, the list simulate_polynomial
\* returns has len(xs) elements, and its i-th element is the fraction of outcome
\* '0' in the result of the i-th job, the job that ran the circuit built for xs[i].
C1_OrderPreserved ==
    pc = "returned" =>
        /\ Len(ret) = Len(xs)
        /\ Len(jobs) = Len(xs)
        /\ \A i \in 1 .. Len(xs) :
              /\ CallsOf("run")[i] = <<"run", i>>
              /\ backend[jobs[i]].circuit = experiment_circuit(xs[i]).circuit
              /\ ret[i] = ProbabilityOf(jobs[i])

C1_Witness ==
    /\ pc = "returned"
    /\ Len(xs) = 2
    /\ xs[1] # xs[2]
    /\ overtaken
    /\ ret[1] # ret[2]

\* C2: every element of xs is submitted exactly once, and all of these submissions
\* come before the first call that waits for a result.
C2_FireAllThenAwaitAll ==
    /\ \A a, b \in 1 .. Len(calls) :
          (calls[a][1] = "result" /\ calls[b][1] = "run") => b < a
    /\ \A i \in 1 .. Len(xs) :
          Cardinality({b \in 1 .. Len(calls) : calls[b] = <<"run", i>>}) <= 1
    /\ (CallsOf("result") # <<>> \/ pc = "returned") =>
          /\ Len(CallsOf("run")) = Len(xs)
          /\ \A i \in 1 .. Len(xs) :
                Cardinality({b \in 1 .. Len(calls) : calls[b] = <<"run", i>>}) = 1

C2_Witness ==
    /\ Len(xs) = 2
    /\ Len(calls) = 3
    /\ calls[3][1] = "result"
    /\ pc = "blocked"

\* C3: the results are requested in submission order, one at a time: the n-th
\* request is for the n-th submitted job, and it is made only after the results
\* of the n-1 jobs before it have been obtained.
C3_AwaitInSubmissionOrder ==
    /\ \A n \in 1 .. Len(CallsOf("result")) : CallsOf("result")[n][2] = jobs[n]
    /\ Len(CallsOf("result")) <= Len(ys_simulated) + 1
    /\ pc = "blocked" => Len(CallsOf("result")) = Len(ys_simulated) + 1

C3_Witness ==
    /\ pc = "blocked"
    /\ Len(ys_simulated) = 1
    /\ overtaken
    /\ calls[Len(calls)] = <<"result", jobs[2]>>

\* the call waits for a job that is still running
BlockedOnRunning == pc = "blocked" /\ backend[NextJob].status = "running"

\* C4: while a submitted job has not completed, simulate_polynomial has not
\* returned and has collected no result of that job or of a job after it; and
\* while the job it waits for stays running, the call stays blocked on it: no
\* timeout, no new submission, no further request, no change to any job.
C4_StalledJobBlocks ==
    /\ [](\A i \in 1 .. Len(jobs) :
             backend[jobs[i]].status = "running" =>
                 /\ pc # "returned"
                 /\ k < i
                 /\ Len(ys_simulated) < i)
    /\ [][(BlockedOnRunning /\ backend'[NextJob].status = "running") =>
             /\ pc' = "blocked"
             /\ UNCHANGED <<jobs, k, ys_simulated, ret, err, calls>>
             /\ Len(backend') = Len(backend)]_vars

C4_Witness ==
    /\ BlockedOnRunning
    /\ Len(jobs) = 2
    /\ NextJob = jobs[1]
    /\ backend[jobs[2]].status = "done"
    /\ shots(backend[jobs[2]].counts) > 0
    /\ ys_simulated = <<>>

\* a submission did not succeed, or a job ended without a non-empty result
PremiseBroken ==
    \/ err \in {"IndexError", "SubmissionError"}
    \/ \E j \in 1 .. Len(backend) :
          backend[j].status = "done" /\ (backend[j].failed \/ shots(backend[j].counts) = 0)

\* C5: when every job completes, simulate_polynomial returns, unless a submission
\* failed or a job ended without a non-empty result.
C5_EventuallyReturns == <>(pc = "returned" \/ PremiseBroken)

C5_Witness ==
    /\ pc = "returned"
    /\ Len(xs) = 2
    /\ ~PremiseBroken
    /\ \A j \in 1 .. Len(backend) : backend[j].status = "done"

\* C6: qsp_polynomial with no phases fails with the assertion "phases cannot be
\* empty", having built no matrix, and returns nothing.
C6_EmptyPhasesAsserted ==
    (phases = <<>> /\ U # None) =>
        /\ U.raised = "AssertionError: phases cannot be empty"
        /\ U.factors = <<>>
        /\ "poly" \notin DOMAIN U

C6_Witness == phases = <<>> /\ U # None /\ U.raised # "none"

\* C7: qsp_circuit with no phases fails before it appends a gate and returns no
\* circuit.
C7_EmptyPhasesNoCircuit ==
    (phases = <<>> /\ circ # None) =>
        /\ circ.raised # "none"
        /\ circ.gates = <<>>

C7_Witness == phases = <<>> /\ circ # None /\ circ.raised = "IndexError"

\* the matrix of one factor, and the product of a factor list from left to right
FactorMatrix(f) == IF f.fn = "expected_s" THEN expected_s(f.arg) ELSE expected_w(f.arg)

RECURSIVE ProductOf(_)
ProductOf(fs) ==
    IF Len(fs) = 1 THEN FactorMatrix(fs[1])
    ELSE MatMul(ProductOf(SubSeq(fs, 1, Len(fs) - 1)), FactorMatrix(fs[Len(fs)]))

\* C8: for n >= 1 phases, qsp_polynomial multiplies, left to right,
\* S(phases[0]), W(x), S(phases[1]), ..., W(x), S(phases[n-1]): n factors S with
\* the phases in their order, n-1 factors W between them.
C8_FactorList ==
    (U # None /\ phases # <<>>) =>
        /\ U.raised = "none"
        /\ Len(U.factors) = 2 * Len(phases) - 1
        /\ \A j \in 1 .. Len(phases) :
              U.factors[2 * j - 1] = [fn |-> "expected_s", arg |-> phases[j]]
        /\ \A j \in 1 .. Len(phases) - 1 :
              U.factors[2 * j] = [fn |-> "expected_w", arg |-> x]
        /\ allclose(U.poly, ProductOf(U.factors))

C8_Witness ==
    /\ U # None
    /\ phases = <<1, 2, 3>>
    /\ x = 3
    /\ Len(U.factors) = 5

\* the gate that implements a factor
GateFor(f) == IF f.fn = "expected_s" THEN SGate(f.arg) ELSE WGate(f.arg)

\* C9: for n >= 1 phases, the gates of qsp_circuit are, in application order,
\* S(phases[n-1]), W(x), S(phases[n-2]), ..., W(x), S(phases[0]): the factor list
\* of qsp_polynomial reversed.
C9_GatesReverseFactors ==
    /\ (circ # None /\ phases # <<>>) =>
          /\ circ.raised = "none"
          /\ Len(circ.gates) = 2 * Len(phases) - 1
          /\ \A j \in 1 .. Len(phases) :
                circ.gates[2 * j - 1] = SGate(phases[Len(phases) - j + 1])
          /\ \A j \in 1 .. Len(phases) - 1 :
                circ.gates[2 * j] = WGate(x)
    /\ (circ # None /\ U # None /\ phases # <<>>) =>
          /\ Len(circ.gates) = Len(U.factors)
          /\ \A j \in 1 .. Len(circ.gates) :
                circ.gates[j] = GateFor(U.factors[Len(U.factors) + 1 - j])

C9_Witness ==
    /\ circ # None
    /\ U # None
    /\ phases = <<0, 1, 2>>
    /\ x = 3
    /\ circ.gates[1] = SGate(2)
    /\ circ.gates[5] = SGate(0)

\* C10: for every phase list of length >= 1 and every x of the grid, the unitary
\* of the circuit of qsp_circuit equals the matrix of qsp_polynomial, entry by
\* entry, and the notebook's comparison of the two passes.
C10_CircuitMatchesPolynomial ==
    /\ (circ # None /\ U # None /\ phases # <<>>) =>
          allclose(Operator(circ.gates), U.poly)
    /\ test # "AssertionError"

C10_Witness ==
    /\ test = "passed"
    /\ Len(phases) = 3
    /\ phases[1] # phases[3]
    /\ x = 3
    /\ U.poly.e[2] # <<0, 0>>
    /\ U.poly.e[1] # <<0, 0>>

\* C11: a circuit holding the single gate WGate(x) has the unitary expected_w(x),
\* and a circuit holding the single gate SGate(phi) has the unitary
\* expected_s(phi): both comparisons of the notebook's gate test pass.
C11_GatesMatchExpected ==
    gate_test # NoGateTest =>
        /\ gate_test.w = "passed"
        /\ gate_test.s = "passed"
        /\ allclose(GateMatrix(WGate(x)), expected_w(x))
        /\ allclose(GateMatrix(SGate(gate_test.phi)), expected_s(gate_test.phi))

C11_Witness ==
    /\ gate_test.s = "passed"
    /\ gate_test.phi = 1
    /\ x = 3

\* C12: every value simulate_polynomial appends and returns is a fraction in
\* [0, 1]: the count of outcome '0' of its job (0 when the outcome is absent)
\* divided by the total of the job's counts.
C12_ProbabilityInUnitInterval ==
    /\ \A i \in 1 .. Len(ys_simulated) :
          LET p == ys_simulated[i]
              c == backend[jobs[i]].counts
              zeros == IF "0" \in DOMAIN c THEN c["0"] ELSE 0
          IN  /\ p[2] > 0
              /\ 0 <= p[1]
              /\ p[1] <= p[2]
              /\ p[1] * shots(c) = zeros * p[2]
    /\ pc = "returned" => ret = ys_simulated

C12_Witness ==
    /\ pc = "returned"
    /\ Len(ret) = 2
    /\ ret[1] = <<1, 2>>
    /\ ret[2] = <<0, 1>>
    /\ "0" \notin DOMAIN backend[jobs[2]].counts

\* C13: a sweep called with num_shots <= 0 is rejected before any remote call:
\* backend.run is never called and the backend holds no job.
C13_InvalidShotsRejected ==
    num_shots <= 0 => (CallsOf("run") = <<>> /\ backend = <<>>)

\* C14: when the submission for xs[k] fails, the failure leaves
\* simulate_polynomial: the failed call is the last call it makes, every element
\* was submitted at most once, none after xs[k], no result was requested and no
\* list is returned, then or later.
C14_SubmitFailurePropagates ==
    /\ [](err = "SubmissionError" =>
             /\ pc = "raised"
             /\ ret = <<>>
             /\ CallsOf("result") = <<>>
             /\ calls[Len(calls)] = <<"run", Len(jobs) + 1>>
             /\ Len(calls) = Len(jobs) + 1
             /\ \A i \in 1 .. Len(calls) : calls[i] = <<"run", i>>
             /\ Len(backend) = Len(jobs))
    /\ [][pc = "raised" =>
             /\ pc' = "raised"
             /\ UNCHANGED <<jobs, k, ys_simulated, ret, err, calls>>
             /\ Len(backend') = Len(backend)]_vars

C14_Witness ==
    /\ err = "SubmissionError"
    /\ Len(xs) = 2
    /\ Len(jobs) = 1
    /\ backend[1].status = "done"

\* C15: no call changes the caller's phases: qsp_polynomial, qsp_circuit and the
\* qsp_circuit calls made by experiment_circuit during a sweep leave the list
\* as it was, so equal values of x are given equal circuits throughout a sweep.
C15_PhasesImmutable ==
    /\ [][phases' = phases]_vars
    /\ [](\A i, j \in 1 .. Len(jobs) :
             xs[i] = xs[j] => backend[jobs[i]].circuit = backend[jobs[j]].circuit)

C15_Witness ==
    /\ Len(jobs) = 2
    /\ xs[1] = xs[2]
    /\ phases = <<0, 1, 3>>
    /\ backend[jobs[2]].circuit.ops[1] = SGate(3)

\* C16: position i of a sweep is a function of xs[i], the phases, the shot count
\* and job i's own counts alone: the job at position i runs the circuit that
\* experiment_circuit builds from xs[i] and the phases, with num_shots shots, and the value at position i
\* is computed from that job's counts, whatever the other elements and jobs are.
C16_PositionsIndependent ==
    /\ \A i \in 1 .. Len(jobs) :
          /\ backend[jobs[i]].circuit
                = IF namespace["experiment_circuit"].form = "h_sandwich"
                  THEN Section3Circuit(qsp_circuit(xs[i], phases).gates)
                  ELSE Section2Circuit(qsp_circuit(xs[i], phases).gates)
          /\ backend[jobs[i]].shots = num_shots
    /\ \A i \in 1 .. Len(ys_simulated) :
          ys_simulated[i]
             = Divide(get0(backend[jobs[i]].counts), shots(backend[jobs[i]].counts))

C16_Witness ==
    /\ Len(ys_simulated) = 2
    /\ xs[1] # xs[2]
    /\ backend[jobs[1]].counts # backend[jobs[2]].counts
    /\ ys_simulated[1] # ys_simulated[2]
    /\ backend[jobs[1]].circuit # backend[jobs[2]].circuit

\* 5^d times the value at x = xv/5 of a polynomial of degree at most d
RECURSIVE PolyAt(_, _, _)
PolyAt(p, xv, d) ==
    IF p = <<>> THEN <<0, 0>>
    ELSE CAdd(CScale(Pow5(d), Head(p)),
              CScale(xv, PolyAt(Tail(p), xv, d - 1)))

\* the polynomial has degree at most d
DegreeAtMost(p, d) == \A n \in 1 .. Len(p) : n > d + 1 => p[n] = <<0, 0>>

\* C17: for n >= 1 phases the top-left entry of qsp_polynomial, taken for the
\* symbol x, is a polynomial in x (no sqrt(1 - x**2) term) of degree at most
\* n - 1; at each x of the grid it takes the value of U's top-left entry.
C17_TopLeftDegree ==
    (U # None /\ phases # <<>>) =>
        /\ DegreeAtMost(U.symbolic[1].p, Len(phases) - 1)
        /\ DegreeAtMost(U.symbolic[1].q, -1)
        /\ CScale(Pow5(U.poly.den), PolyAt(U.symbolic[1].p, x, Len(phases) - 1))
              = CScale(Pow5(Len(phases) - 1), U.poly.e[1])

C17_Witness ==
    /\ U # None
    /\ Len(phases) = 3
    /\ Len(U.symbolic[1].p) = 3
    /\ x = 3

\* C18: when the sweep of the notebook has submitted its jobs, their number is
\* discretization_points (30 as the notebook sets it).
C18_JobsEqualDiscretizationPoints ==
    (pc = "submitted" /\ discretization_points = DiscretizationPoints) =>
        /\ Len(jobs) = discretization_points
        /\ Len(CallsOf("run")) = discretization_points

\* the value num / den is in [-1, 1]
InDomain(v) == v.den > 0 /\ -v.den <= v.num /\ v.num <= v.den

\* C19: every x the tests and the sweep pass to WGate or qsp_circuit is in
\* [-1, 1]; the sweep's xs are the interior points of the even grid of
\* discretization_points points on [-1, 1], and each submitted circuit is built
\* from its element of xs.
C19_SignalInDomain ==
    /\ circ # None => InDomain(circ.x)
    /\ \A j \in 1 .. Len(backend) :
          /\ InDomain(backend[j].circuit.x)
          /\ backend[j].circuit.x = xs[j]
    /\ pc # "cell" =>
          /\ Len(xs) = discretization_points - 2
          /\ \A i \in 1 .. Len(xs) :
                /\ xs[i].den = discretization_points - 1
                /\ xs[i].num = 2 * i - xs[i].den
                /\ -xs[i].den < xs[i].num
                /\ xs[i].num < xs[i].den

C19_Witness ==
    /\ pc = "submitted"
    /\ discretization_points = DiscretizationPoints
    /\ Len(backend) = DiscretizationPoints - 2
    /\ circ # None
    /\ circ.builder = "qsp_circuit"
    /\ circ.x.num = -circ.x.den

\* the sum of the phases, in quarter turns
RECURSIVE PhaseSum(_)
PhaseSum(ph) == IF ph = <<>> THEN 0 ELSE Head(ph) + PhaseSum(Tail(ph))

\* x = 1 or x = -1
AtBoundary == x = 5 \/ x = -5

\* (+1 or -1)^(n-1) * exp(1j * (phi_0 + ... + phi_(n-1))), the value of the
\* top-left entry where W(x) is the identity or its negative
BoundaryValue ==
    LET sign == IF x = -5 /\ (Len(phases) - 1) % 2 = 1 THEN -1 ELSE 1
    IN  CScale(sign, <<CosQ(PhaseSum(phases)), SinQ(PhaseSum(phases))>>)

\* C20 as stated: at x = 1 and x = -1 qsp_polynomial raises no error for a
\* non-empty phase sequence, and its top-left entry is real-valued.
C20_BoundaryEntryReal ==
    (AtBoundary /\ U # None /\ phases # <<>>) =>
        /\ U.raised = "none"
        /\ U.poly.e[1][2] = 0

\* C20, amended: at x = 1 and x = -1 qsp_polynomial raises no error for a
\* non-empty phase sequence, the square-root term is 0, the off-diagonal
\* entries are 0 and the top-left entry is the boundary value
\* (+1 or -1)^(n-1) * exp(1j * sum of the phases), which is real exactly when
\* the phases sum to a multiple of pi.
C20_BoundaryValue ==
    (AtBoundary /\ U # None /\ phases # <<>>) =>
        /\ U.raised = "none"
        /\ sqrt1mx2(x) = 0
        /\ U.poly.e[2] = <<0, 0>>
        /\ U.poly.e[3] = <<0, 0>>
        /\ U.poly.e[1] = CScale(Pow5(U.poly.den), BoundaryValue)
        /\ (U.poly.e[1][2] = 0) <=> (PhaseSum(phases) % 2 = 0)

C20_Witness ==
    /\ x = -5
    /\ phases = <<1, 0>>
    /\ U # None
    /\ U.raised = "none"
    /\ U.poly.e[1] = <<0, -1>>

\* the backend answers as with a fixed seed: finished jobs that ran the same
\* circuit with the same shot count report the same outcome
Seeded ==
    \A i, j \in 1 .. Len(backend) :
        (/\ backend[i].status = "done"
         /\ backend[j].status = "done"
         /\ backend[i].circuit = backend[j].circuit
         /\ backend[i].shots = backend[j].shots) =>
            /\ backend[i].counts = backend[j].counts
            /\ backend[i].failed = backend[j].failed

\* the counts the backend reports for circuit c
AnswerFor(c) == backend[CHOOSE j \in 1 .. Len(backend) : backend[j].circuit = c].counts

\* C21: with a backend that answers the same circuit with the same counts, the
\* returned list is determined by the circuit function, xs and these answers:
\* its i-th element is computed from the answer for the circuit of xs[i],
\* whatever the order in which the jobs were finished, so two such runs on
\* equal inputs return equal lists and equal elements of xs give equal values.
C21_Deterministic ==
    (pc = "returned" /\ Seeded) =>
        /\ Len(ret) = Len(xs)
        /\ \A i \in 1 .. Len(xs) :
              LET a == AnswerFor(experiment_circuit(xs[i]).circuit)
              IN  ret[i][1] * shots(a) = get0(a) * ret[i][2]
        /\ \A i, j \in 1 .. Len(xs) : xs[i] = xs[j] => ret[i] = ret[j]

C21_Witness ==
    /\ pc = "returned"
    /\ Seeded
    /\ overtaken
    /\ Len(xs) = 2
    /\ xs[1] = xs[2]
    /\ ret = << <<1, 2>>, <<1, 2>> >>

\* |u|^2
AbsSquared(u) == u[1] * u[1] + u[2] * u[2]

\* the probability of outcome '0' when the measured circuit is run on |0>: the
\* squared magnitude of the top-left entry of the unitary of the gates before
\* the measurement, as num / 25^den
ProbabilityOfZero(ops) ==
    LET M == simplify(Operator(SelectSeq(ops, LAMBDA g : g.name # "measure")))
    IN  [num |-> AbsSquared(M.e[1]), den |-> M.den]

\* two such probabilities are the same number
SameProbability(p, q) ==
    IF p.den <= q.den
    THEN p.num * Pow5(2 * (q.den - p.den)) = q.num
    ELSE q.num * Pow5(2 * (p.den - q.den)) = p.num

\* C22: for every x of the grid and every non-empty phase sequence, the squared
\* magnitude of the top-left entry of qsp_polynomial(x, phases) is the
\* probability of outcome '0' of the measured qsp_circuit(x, phases), the value
\* the estimate count('0') / shots tends to as the shots grow.
C22_ProbabilityIsSquaredMagnitude ==
    (U # None /\ U.raised = "none") =>
        LET c == experiment_circuit(x)
        IN  /\ c.raised = "none"
            /\ c.circuit.ops[Len(c.circuit.ops)].name = "measure"
            /\ SameProbability(ProbabilityOfZero(c.circuit.ops),
                               [num |-> AbsSquared(U.poly.e[1]), den |-> U.poly.den])

C22_Witness ==
    /\ U # None
    /\ U.raised = "none"
    /\ x = 3
    /\ Len(phases) = 3
    /\ AbsSquared(U.poly.e[1]) > 0
    /\ AbsSquared(U.poly.e[2]) > 0

\* the names the statements of a cell bind
BindsOf(cell) == UNION {DOMAIN cell[i].binds \cup cell[i].out : i \in 1 .. Len(cell)}

\* the names a cell reads before it has bound them itself, from statement i on
RECURSIVE ExternalFrom(_, _, _)
ExternalFrom(cell, i, local) ==
    IF i > Len(cell) THEN {}
    ELSE (cell[i].reads \ local)
         \cup ExternalFrom(cell, i + 1, local \cup DOMAIN cell[i].binds \cup cell[i].out)

ExternalReads(cell) == ExternalFrom(cell, 1, {})

\* per notebook and cell, the names the cell binds and the names it reads from outside
BindsIn ==
    [nb \in NotebookNames |-> [c \in 1 .. Len(CellsOf(nb)) |-> BindsOf(CellsOf(nb)[c])]]

ExternalReadsIn ==
    [nb \in NotebookNames |-> [c \in 1 .. Len(CellsOf(nb)) |-> ExternalReads(CellsOf(nb)[c])]]

\* the cells of the notebook above c that bind name n
BindersAbove(c, n) == {b \in 1 .. c - 1 : n \in BindsIn[notebook][b]}

\* the notebooks in which every name a cell reads is bound by the cell itself or by a cell above it
BoundAbove ==
    {nb \in NotebookNames :
        \A c \in 1 .. Len(CellsOf(nb)) :
            \A n \in ExternalReadsIn[nb][c] : \E b \in 1 .. c - 1 : n \in BindsIn[nb][b]}

\* the cells run so far were the first cells of the notebook, once each, in order
TopToBottom == \A i \in 1 .. Len(ran) : ran[i].cell = i

\* the cells run before the i-th run
StartedBefore(i) == {ran[j].cell : j \in 1 .. i - 1}

\* the cells that ran to their end before the i-th run
RanBefore(i) == {ran[j].cell : j \in {m \in 1 .. i - 1 : ran[m].error = "none"}}

\* every name a cell reads is bound by the cell itself or by a cell above it,
\* and a top-to-bottom run raises no NameError
BoundInOrder ==
    /\ notebook \in BoundAbove
    /\ TopToBottom => \A i \in 1 .. Len(ran) : ran[i].error = "none"

\* C23 as stated: a top-to-bottom run finds every name bound, and a cell run
\* before the cell whose binding of a name it reads (the nearest cell above it
\* that binds the name) has run fails.
C23_ReadBeforeBinderFails ==
    /\ BoundInOrder
    /\ \A i \in 1 .. Len(ran) :
          LET c == ran[i].cell
          IN  (\E n \in ExternalReadsIn[notebook][c] :
                  \E b \in BindersAbove(c, n) :
                      /\ \A b2 \in BindersAbove(c, n) : b2 <= b
                      /\ b \notin StartedBefore(i))
              => ran[i].error = "NameError"

\* C23, amended: a top-to-bottom run finds every name bound; a cell fails with
\* a NameError exactly when a name it reads, and has not bound itself, was bound
\* by no statement run before; every bound name was bound by a cell run
\* earlier, so a cell run before a later rebinding of a name it reads (xs, ys,
\* phases, poly in the QSP notebook) does not fail and reads the earlier binding.
C23_NamesBoundInOrder ==
    /\ [](/\ BoundInOrder
          /\ \A n \in Bound(namespace) :
                \E j \in 1 .. Len(ran) : n \in BindsIn[notebook][ran[j].cell]
          /\ \A i \in 1 .. Len(ran) : ran[i].error \in {"none", "NameError"})
    /\ [][Len(ran') = Len(ran) + 1 =>
             LET last == ran'[Len(ran')]
                 reads == ExternalReadsIn[notebook][last.cell]
             IN  /\ (last.error = "NameError") <=> ~(reads \subseteq Bound(namespace))
                 /\ (\A n \in reads :
                        \E b \in RanBefore(Len(ran) + 1) : n \in BindsIn[notebook][b])
                    => last.error = "none"]_vars

C23_Witness ==
    /\ notebook = "qsp"
    /\ Len(ran) = 15
    /\ \A i \in 1 .. 14 : ran[i].cell = i /\ ran[i].error = "none"
    /\ ran[15].cell = 16
    /\ ran[15].error = "none"
    /\ 15 \notin StartedBefore(15)
    /\ "xs" \in ExternalReadsIn[notebook][16]
    /\ "xs" \in BindsIn[notebook][15]

HelloWorld == {"rigetti", "ionq", "pasqal"}

\* the calls that connect, build the program, submit and wait, in order
MainCalls == SelectSeq(log, LAMBDA ev : ev.call \in {"connect", "build", "submit", "result"})

\* C24: a hello-world notebook run top to bottom connects, then builds the
\* program, then submits one job with shots = 100, then waits once for the
\* result of that job; and in whatever order its cells run, a result is only
\* requested of a job handle that an earlier submission returned.
C24_OneJobThenItsResult ==
    notebook \in HelloWorld =>
        /\ TopToBottom =>
              /\ \E n \in 0 .. 4 :
                    [i \in 1 .. Len(MainCalls) |-> MainCalls[i].call]
                       = SubSeq(<<"connect", "build", "submit", "result">>, 1, n)
              /\ Len(ran) = Len(CellsOf(notebook)) =>
                    /\ Len(MainCalls) = 4
                    /\ MainCalls[3].shots = 100
                    /\ MainCalls[4].on = MainCalls[3].result
        /\ \A i \in 1 .. Len(log) :
              log[i].call = "result" =>
                  /\ log[i].on.kind = "job"
                  /\ log[i].on.id < i
                  /\ log[log[i].on.id].call = "submit"
                  /\ log[log[i].on.id].result = log[i].on

C24_Witness ==
    /\ notebook = "pasqal"
    /\ TopToBottom
    /\ Len(ran) = 5
    /\ Len(MainCalls) = 4
    /\ MainCalls[4].call = "result"
    /\ MainCalls[4].on = Job(4)
    /\ MainCalls[3].on = Target(PasqalEmuTn)

\* the simulator targets
Simulators == {"rigetti.sim.qvm", "ionq.simulator", "pasqal.sim.emu-tn"}

\* C25: in whatever order the cells of a notebook run, every job submission and
\* every sweep goes to a target object obtained for a simulator target name.
C25_OnlySimulatorTargets ==
    \A i \in 1 .. Len(log) :
        log[i].call \in {"submit", "sweep"} =>
            /\ log[i].on.kind = "target"
            /\ log[i].on.name \in Simulators

C25_Witness ==
    /\ notebook = "qsp"
    /\ Len(log) > 0
    /\ log[Len(log)].call = "sweep"
    /\ log[Len(log)].on = Target("ionq.simulator")
    /\ log[Len(log)].args["experiment_circuit"] = Function("h_sandwich")

\* the gates of ops are the gates of qsp_circuit(xv, phases), in order
IsQspSequence(ops, xv) == ops = qsp_circuit(xv, phases).gates

C27_ResultFailurePropagates ==
    /\ [](err = "JobError" =>
             /\ pc = "raised"
             /\ ret = <<>>
             /\ Len(ys_simulated) = k
             /\ backend[jobs[k + 1]].failed
             /\ Len(CallsOf("result")) = k + 1
             /\ \A i \in 1 .. k + 1 : CallsOf("result")[i] = <<"result", jobs[i]>>
             /\ Len(CallsOf("run")) = Len(xs)
             /\ Len(backend) = Len(xs))
    /\ [][err = "JobError" =>
             /\ UNCHANGED <<pc, jobs, k, ys_simulated, ret, err, calls>>
             /\ Len(backend') = Len(backend)
             /\ \A j \in 1 .. Len(backend) :
                   /\ backend'[j].circuit = backend[j].circuit
                   /\ backend'[j].shots = backend[j].shots
                   /\ backend'[j].status \in {"running", "done"}
                   /\ backend[j].status = "done" => backend'[j] = backend[j]]_vars

C27_Witness ==
    /\ err = "JobError"
    /\ Len(jobs) = 2
    /\ k = 1
    /\ ys_simulated = << <<1, 2>> >>
    /\ ret = <<>>
    /\ backend[jobs[2]].failed

\* C28: when the submission for xs[k] fails, the jobs submitted for the
\* elements before it are still on the backend, each with the circuit of its
\* element, running or done and free to finish later; the call has requested
\* no result, cancels nothing, and returns nothing that holds their handles.
C28_SubmittedJobsOrphaned ==
    /\ [](err = "SubmissionError" =>
             /\ Len(backend) = Len(jobs)
             /\ Len(jobs) < Len(xs)
             /\ \A i \in 1 .. Len(jobs) :
                   /\ jobs[i] = i
                   /\ backend[i].circuit = experiment_circuit(xs[i]).circuit
                   /\ backend[i].status \in {"running", "done"}
             /\ CallsOf("result") = <<>>
             /\ ret = <<>>
             /\ pc = "raised")
    /\ [][err = "SubmissionError" =>
             /\ calls' = calls
             /\ ret' = ret
             /\ \A i \in 1 .. Len(jobs) :
                   /\ backend'[i].circuit = backend[i].circuit
                   /\ backend'[i].status \in {"running", "done"}]_vars

C28_Witness ==
    /\ err = "SubmissionError"
    /\ Len(xs) = 2
    /\ Len(jobs) = 1
    /\ backend[1].status = "running"
    /\ ENABLED Complete(1)

\* C29: when the job awaited returns counts whose total is zero, the call
\* ends with a division-by-zero error at that job: no probability is appended
\* for its x, nothing is returned, and the error comes from nowhere else.
C29_EmptyCountsDivideByZero ==
    /\ [][(/\ pc = "blocked"
           /\ pc' # "blocked"
           /\ ~backend[calls[Len(calls)][2]].failed
           /\ shots(backend[calls[Len(calls)][2]].counts) = 0)
          => /\ err' = "ZeroDivisionError"
             /\ pc' = "raised"
             /\ ys_simulated' = ys_simulated
             /\ k' = k
             /\ ret' = <<>>]_vars
    /\ [](err = "ZeroDivisionError" =>
             /\ pc = "raised"
             /\ ret = <<>>
             /\ Len(ys_simulated) = k
             /\ k < Len(jobs)
             /\ backend[jobs[k + 1]].status = "done"
             /\ ~backend[jobs[k + 1]].failed
             /\ shots(backend[jobs[k + 1]].counts) = 0
             /\ CallsOf("result")[Len(CallsOf("result"))] = <<"result", jobs[k + 1]>>)
    /\ [][err = "ZeroDivisionError" => UNCHANGED <<pc, k, ys_simulated, ret, err, calls>>]_vars

C29_Witness ==
    /\ err = "ZeroDivisionError"
    /\ Len(jobs) = 2
    /\ k = 1
    /\ backend[jobs[2]].counts = NoCounts
    /\ ret = <<>>

\* the binding of the global x after the first n cells of the QSP notebook
XAfter(n) ==
    IF n < 4 THEN Unbound
    ELSE IF n < 6 THEN Float
    ELSE IF n < 9 THEN Symbol("x")
    ELSE IF n < 14 THEN Float
    ELSE Symbol("x")

\* C30: in the QSP notebook run top to bottom the global x is a float after
\* each random test loop and the symbol x after each symbolic cell; every call
\* of qsp_polynomial receives the symbol and returns expressions in it; U, once
\* bound, keeps the free symbol x whatever x is rebound to; and the
\* substitution of the test loop, made while x is a float, puts that float for
\* the symbol x of U and leaves no free symbol.
C30_SymbolicWhileCalled ==
    (notebook = "qsp" /\ TopToBottom) =>
        /\ namespace["x"] = XAfter(Len(ran))
        /\ \A i \in 1 .. Len(log) :
              /\ log[i].call = "qsp_polynomial" =>
                    /\ log[i].args["x"] = Symbol("x")
                    /\ log[i].result = Expr({"x"})
              /\ log[i].call = "subs" =>
                    /\ log[i].on = Expr({"x"})
                    /\ log[i].args["x"] = Float
                    /\ log[i].result = Expr({})
        /\ Len(SelectSeq(log, LAMBDA ev : ev.call = "qsp_polynomial"))
              = (IF Len(ran) < 6 THEN 0 ELSE IF Len(ran) < 14 THEN 1 ELSE 2)
        /\ Len(SelectSeq(log, LAMBDA ev : ev.call = "subs"))
              = (IF Len(ran) < 9 THEN 0 ELSE 1)
        /\ namespace["U"] = (IF Len(ran) < 6 THEN Unbound ELSE Expr({"x"}))

C30_Witness ==
    /\ notebook = "qsp"
    /\ TopToBottom
    /\ Len(ran) = 9
    /\ ran[9].error = "none"
    /\ namespace["x"] = Float
    /\ namespace["U"] = Expr({"x"})
    /\ log[Len(log)].call = "subs"
    /\ log[Len(log)].args["x"] = Float
    /\ log[Len(log)].result = Expr({})

====
